---- MODULE Spec2Model ----
(***************************************************************************)
(* Geometry user defined types of ligavision.spark.types.geometry:         *)
(* Box2dType, PointType, Box3dType and MaskType, each with sqlType,        *)
(* serialize and deserialize, and the Mask wrappers from_rle,              *)
(* from_coco_rle and from_polygon.                                         *)
(*                                                                         *)
(* A call is modelled in two steps, the way the source is written: the     *)
(* prologue of a method (the arity check with its logger.error, or the     *)
(* assignment of the method's local variables) and then its body (the      *)
(* return or raise statement).  Workers run calls; Spec runs one worker    *)
(* over the whole input space, SpecConc runs all workers interleaved over  *)
(* a sample of calls.                                                      *)
(***************************************************************************)
EXTENDS Integers, Sequences, FiniteSets, TLC

\* Coordinates, dimensions and run lengths are drawn from 1..MaxCoord.
MaxCoord == 2
\* A record handed to deserialize has up to MaxExtra fields more than its schema.
MaxExtra == 1
\* Number of workers that call the codecs concurrently.
NumWorkers == 2

Coords == 1..MaxCoord
Workers == 1..NumWorkers

(***************************************************************************)
(* Python values.  Every object is a record tagged with its kind; a call   *)
(* ends in a returned value or in a raised exception.                      *)
(***************************************************************************)
None == [kind |-> "None"]
PyList(items) == [kind |-> "list", items |-> items]
Returned(v) == [kind |-> "return", value |-> v]
Raised(e, m) == [kind |-> "raise", exc |-> e, msg |-> m]
Running == [kind |-> "running"]

(***************************************************************************)
(* pyspark.sql.Row: a tuple of values, with field names when it is built   *)
(* from keywords (kept in the order given) and none when it is built from  *)
(* positional arguments.                                                   *)
(***************************************************************************)
Row(fields, vals) == [kind |-> "Row", fields |-> fields, vals |-> vals]

Row_len(r) == Len(r.vals)

\* datum[i] with an integer (0-based) index: tuple indexing.
Row_getitem(r, i) ==
    IF i + 1 <= Len(r.vals)
    THEN Returned(r.vals[i + 1])
    ELSE Raised("IndexError", "tuple index out of range")

\* datum["name"]: the value at the position of the name in __fields__.
Row_getitem_name(r, n) ==
    IF \E i \in 1..Len(r.fields) : r.fields[i] = n
    THEN Returned(r.vals[CHOOSE i \in 1..Len(r.fields) :
                            /\ r.fields[i] = n
                            /\ \A j \in 1..(i - 1) : r.fields[j] # n])
    ELSE Raised("ValueError", n)

\* datum.asDict(): the mapping from field names to values; a Row without
\* field names cannot be converted.
Row_asDict(r) ==
    IF r.fields = <<>>
    THEN Raised("TypeError", "Cannot convert a Row class into dict")
    ELSE Returned([n \in {r.fields[i] : i \in 1..Len(r.fields)} |->
                      r.vals[CHOOSE i \in 1..Len(r.fields) :
                                /\ r.fields[i] = n
                                /\ \A j \in (i + 1)..Len(r.fields) : r.fields[j] # n]])

(***************************************************************************)
(* The value classes of ligavision.dsl that the codecs construct.          *)
(***************************************************************************)
\* Point(x, y, z)
Point_init(x, y, z) == [kind |-> "Point", x |-> x, y |-> y, z |-> z]

\* Box2d(**kwargs): the keywords must be exactly xmin, ymin, xmax, ymax.
Box2d_init(kw) ==
    IF DOMAIN kw = {"xmin", "ymin", "xmax", "ymax"}
    THEN Returned([kind |-> "Box2d", xmin |-> kw.xmin, ymin |-> kw.ymin,
                   xmax |-> kw.xmax, ymax |-> kw.ymax])
    ELSE Raised("TypeError", "missing or unexpected keyword argument")

\* Box3d(center, length, width, height, heading)
Box3d_init(center, length, width, height, heading) ==
    [kind |-> "Box3d", center |-> center, length |-> length, width |-> width,
     height |-> height, heading |-> heading]

\* Mask.Type: the members of the enumeration and their integer values.
MaskTags == {"POLYGON", "RLE", "COCO_RLE", "MASK"}

Mask_Type_value ==
    [POLYGON |-> 1, RLE |-> 2, COCO_RLE |-> 3, MASK |-> 4]

\* Mask.Type(code): the member with that value; an Enum raises ValueError
\* for a value that none of its members has.
Mask_Type(code) ==
    IF \E t \in MaskTags : Mask_Type_value[t] = code
    THEN Returned(CHOOSE t \in MaskTags : Mask_Type_value[t] = code)
    ELSE Raised("ValueError", "not a valid Mask.Type")

\* DslMask(data, width, height, mask_type)
DslMask_init(data, width, height, mask_type) ==
    [kind |-> "Mask", data |-> data, width |-> width, height |-> height,
     type |-> mask_type]

DslMask_from_rle(data, width, height) ==
    DslMask_init(data, width, height, "RLE")

DslMask_from_coco_rle(data, width, height) ==
    DslMask_init(data, width, height, "COCO_RLE")

DslMask_from_polygon(data, width, height) ==
    DslMask_init(data, width, height, "POLYGON")

(***************************************************************************)
(* pyspark.sql.types: the data types a schema is built from.               *)
(***************************************************************************)
DoubleType == [type |-> "double"]
FloatType == [type |-> "float"]
IntegerType == [type |-> "integer"]
ShortType == [type |-> "short"]
ArrayType(elementType, containsNull) ==
    [type |-> "array", elementType |-> elementType, containsNull |-> containsNull]
StructField(name, dataType, nullable) ==
    [name |-> name, dataType |-> dataType, nullable |-> nullable]
StructType(fields) == [type |-> "struct", fields |-> fields]

(***************************************************************************)
(* Box2dType                                                               *)
(***************************************************************************)
Box2dType_sqlType ==
    StructType(<<StructField("xmin", DoubleType, FALSE),
                 StructField("ymin", DoubleType, FALSE),
                 StructField("xmax", DoubleType, FALSE),
                 StructField("ymax", DoubleType, FALSE)>>)

\* Mutant: the two x bounds are written under each other's name.
Box2dType_serialize_swapped(obj) ==
    Returned(Row(<<"xmin", "ymin", "xmax", "ymax">>,
                 <<obj.xmax, obj.ymin, obj.xmin, obj.ymax>>))

Box2dType_serialize(obj) ==
    Returned(Row(<<"xmin", "ymin", "xmax", "ymax">>,
                 <<obj.xmin, obj.ymin, obj.xmax, obj.ymax>>))

\* Mutant: only a record that is too short is reported.
Box2dType_deserialize_log_short(datum) ==
    IF Row_len(datum) < 4
    THEN <<"Deserialize box2d: not sufficient data">>
    ELSE <<>>

\* The arity check of Box2dType.deserialize: what it hands to logger.error.
Box2dType_deserialize_log(datum) ==
    IF Row_len(datum) # 4
    THEN <<"Deserialize box2d: not sufficient data">>
    ELSE <<>>

\* return Box2d(**datum.asDict())
Box2dType_deserialize(datum) ==
    LET d == Row_asDict(datum)
    IN  IF d.kind = "raise" THEN d ELSE Box2d_init(d.value)

(***************************************************************************)
(* PointType                                                               *)
(***************************************************************************)
PointType_sqlType ==
    StructType(<<StructField("x", DoubleType, FALSE),
                 StructField("y", DoubleType, FALSE),
                 StructField("z", DoubleType, FALSE)>>)

PointType_serialize(obj) ==
    Returned(Row(<<"x", "y", "z">>, <<obj.x, obj.y, obj.z>>))

\* The arity check of PointType.deserialize: what it hands to logger.error.
PointType_deserialize_log(datum) ==
    IF Row_len(datum) < 3
    THEN <<"Deserialize Point: not sufficient data">>
    ELSE <<>>

\* return Point(datum[0], datum[1], datum[2]); the arguments are evaluated
\* from left to right and the first failing index raises.
PointType_deserialize(datum) ==
    LET a0 == Row_getitem(datum, 0)
        a1 == Row_getitem(datum, 1)
        a2 == Row_getitem(datum, 2)
    IN  IF a0.kind = "raise" THEN a0
        ELSE IF a1.kind = "raise" THEN a1
        ELSE IF a2.kind = "raise" THEN a2
        ELSE Returned(Point_init(a0.value, a1.value, a2.value))

(***************************************************************************)
(* Box3dType                                                               *)
(***************************************************************************)
Box3dType_sqlType ==
    StructType(<<StructField("center", PointType_sqlType, FALSE),
                 StructField("length", DoubleType, FALSE),
                 StructField("width", DoubleType, FALSE),
                 StructField("height", DoubleType, FALSE),
                 StructField("heading", DoubleType, FALSE)>>)

\* return Row(obj.center, obj.length, obj.width, obj.height, obj.heading):
\* a Row of positional values, the first of them the center object itself.
Box3dType_serialize(obj) ==
    Returned(Row(<<>>, <<obj.center, obj.length, obj.width, obj.height,
                         obj.heading>>))

\* The arity check of Box3dType.deserialize: what it hands to logger.error.
Box3dType_deserialize_log(datum) ==
    IF Row_len(datum) < 5
    THEN <<"Deserialize Box3d: not sufficient data">>
    ELSE <<>>

\* return Box3d(datum[0], datum[1], datum[2], datum[3], datum[4])
Box3dType_deserialize(datum) ==
    LET a0 == Row_getitem(datum, 0)
        a1 == Row_getitem(datum, 1)
        a2 == Row_getitem(datum, 2)
        a3 == Row_getitem(datum, 3)
        a4 == Row_getitem(datum, 4)
    IN  IF a0.kind = "raise" THEN a0
        ELSE IF a1.kind = "raise" THEN a1
        ELSE IF a2.kind = "raise" THEN a2
        ELSE IF a3.kind = "raise" THEN a3
        ELSE IF a4.kind = "raise" THEN a4
        ELSE Returned(Box3d_init(a0.value, a1.value, a2.value, a3.value,
                                 a4.value))

(***************************************************************************)
(* Mask: the wrappers around the constructors of the dsl class             *)
(***************************************************************************)
\* Mask.__init__(dsl): super().__init__(dsl.data, dsl.width, dsl.height, dsl.type)
Mask_init(dsl) == DslMask_init(dsl.data, dsl.width, dsl.height, dsl.type)

\* Mutant: the wrapper passes its two dimensions on in the other order.
Mask_from_rle_swapped(data, width, height) ==
    Mask_init(DslMask_from_rle(data, height, width))

Mask_from_rle(data, width, height) ==
    Mask_init(DslMask_from_rle(data, width, height))

Mask_from_coco_rle(data, width, height) ==
    Mask_init(DslMask_from_coco_rle(data, width, height))

Mask_from_polygon(data, width, height) ==
    Mask_init(DslMask_from_polygon(data, width, height))

(***************************************************************************)
(* MaskType                                                                *)
(***************************************************************************)
\* Mutant: the two payload columns are declared not nullable.
MaskType_sqlType_notnull ==
    StructType(<<StructField("type", ShortType, FALSE),
                 StructField("height", IntegerType, FALSE),
                 StructField("width", IntegerType, FALSE),
                 StructField("polygon",
                             ArrayType(ArrayType(FloatType, FALSE), FALSE),
                             FALSE),
                 StructField("rle", ArrayType(IntegerType, FALSE), FALSE)>>)

MaskType_sqlType ==
    StructType(<<StructField("type", ShortType, FALSE),
                 StructField("height", IntegerType, FALSE),
                 StructField("width", IntegerType, FALSE),
                 StructField("polygon",
                             ArrayType(ArrayType(FloatType, FALSE), FALSE),
                             TRUE),
                 StructField("rle", ArrayType(IntegerType, FALSE), TRUE)>>)

MaskFields == <<"type", "height", "width", "polygon", "rle">>

\* mask_type = mask.type.value
MaskType_serialize_local(mask) == Mask_Type_value[mask.type]

\* Mutant: the payload is written to both columns.
MaskType_serialize_both(mask, mask_type) ==
    IF mask.type \in {"RLE", "COCO_RLE", "POLYGON"}
    THEN Returned(Row(MaskFields,
                      <<mask_type, mask.height, mask.width, mask.data, mask.data>>))
    ELSE Raised("ValueError", "Unrecognized mask type")

\* Mutant: a mask of another type is written with both payload columns null.
MaskType_serialize_partial(mask, mask_type) ==
    IF mask.type = "RLE" \/ mask.type = "COCO_RLE"
    THEN Returned(Row(MaskFields,
                      <<mask_type, mask.height, mask.width, None, mask.data>>))
    ELSE IF mask.type = "POLYGON"
    THEN Returned(Row(MaskFields,
                      <<mask_type, mask.height, mask.width, mask.data, None>>))
    ELSE Returned(Row(MaskFields,
                      <<mask_type, mask.height, mask.width, None, None>>))

\* The if / elif / else of MaskType.serialize.
MaskType_serialize(mask, mask_type) ==
    IF mask.type = "RLE" \/ mask.type = "COCO_RLE"
    THEN Returned(Row(MaskFields,
                      <<mask_type, mask.height, mask.width, None, mask.data>>))
    ELSE IF mask.type = "POLYGON"
    THEN Returned(Row(MaskFields,
                      <<mask_type, mask.height, mask.width, mask.data, None>>))
    ELSE Raised("ValueError", "Unrecognized mask type")

\* mask_type = Mask.Type(datum["type"]); height = datum["height"];
\* width = datum["width"].  The first statement that raises ends the call.
MaskType_deserialize_local(datum) ==
    LET t == Row_getitem_name(datum, "type")
        m == Mask_Type(t.value)
        h == Row_getitem_name(datum, "height")
        w == Row_getitem_name(datum, "width")
    IN  IF t.kind = "raise" THEN t
        ELSE IF m.kind = "raise" THEN m
        ELSE IF h.kind = "raise" THEN h
        ELSE IF w.kind = "raise" THEN w
        ELSE Returned([mask_type |-> m.value, height |-> h.value,
                       width |-> w.value])

\* One reconstruction path: the constructor called on a column of the record.
\* calls is the list of the constructors called, each with its data argument.
Reconstruct(fn, field, mask) ==
    IF field.kind = "raise"
    THEN [calls |-> <<>>, out |-> field]
    ELSE [calls |-> <<[fn |-> fn, data |-> field.value]>>, out |-> Returned(mask)]

\* Mutant: the two run-length paths are taken for each other's code.
MaskType_deserialize_crossed(datum, l) ==
    LET p == Row_getitem_name(datum, "polygon")
        r == Row_getitem_name(datum, "rle")
    IN  IF l.mask_type = "POLYGON"
        THEN Reconstruct("from_polygon", p,
                         Mask_from_polygon(p.value, l.width, l.height))
        ELSE IF l.mask_type = "COCO_RLE"
        THEN Reconstruct("from_rle", r,
                         Mask_from_rle(r.value, l.width, l.height))
        ELSE IF l.mask_type = "RLE"
        THEN Reconstruct("from_coco_rle", r,
                         Mask_from_coco_rle(r.value, l.width, l.height))
        ELSE [calls |-> <<>>,
              out |-> Raised("ValueError", "Unrecognized mask type")]

\* The if / elif / else of MaskType.deserialize; the dimensions are passed
\* by keyword (height=height, width=width).
MaskType_deserialize(datum, l) ==
    LET p == Row_getitem_name(datum, "polygon")
        r == Row_getitem_name(datum, "rle")
    IN  IF l.mask_type = "POLYGON"
        THEN Reconstruct("from_polygon", p,
                         Mask_from_polygon(p.value, l.width, l.height))
        ELSE IF l.mask_type = "RLE"
        THEN Reconstruct("from_rle", r,
                         Mask_from_rle(r.value, l.width, l.height))
        ELSE IF l.mask_type = "COCO_RLE"
        THEN Reconstruct("from_coco_rle", r,
                         Mask_from_coco_rle(r.value, l.width, l.height))
        ELSE [calls |-> <<>>,
              out |-> Raised("ValueError", "Unrecognized mask type")]

(***************************************************************************)
(* Inputs: the values handed to serialize and the records handed to        *)
(* deserialize.                                                            *)
(***************************************************************************)
Points == {Point_init(x, y, z) : x \in Coords, y \in Coords, z \in Coords}

\* Boxes as their consumers expect them: xmin <= xmax and ymin <= ymax.
Box2ds ==
    {[kind |-> "Box2d", xmin |-> b[1], ymin |-> b[2], xmax |-> b[3], ymax |-> b[4]] :
        b \in {c \in [1..4 -> Coords] : c[1] <= c[3] /\ c[2] <= c[4]}}

\* The boxes around one center.
Box3ds(c) == {Box3d_init(c, d[1], d[2], d[3], d[4]) : d \in [1..4 -> Coords]}

\* A polygon is a flat list of x, y coordinates; a mask holds a list of them.
PolygonData == {PyList(<<PyList(<<1, 1, c, 1, c, c>>)>>) : c \in Coords}
RleData == {PyList(<<a, b>>) : a \in Coords, b \in Coords}
ArrayData == {PyList(<<PyList(<<c>>)>>) : c \in Coords}

DataOf(tag) ==
    CASE tag = "POLYGON" -> PolygonData
      [] tag \in {"RLE", "COCO_RLE"} -> RleData
      [] OTHER -> ArrayData

Masks ==
    UNION {{DslMask_init(d, w, h, tag) : d \in DataOf(tag), w \in Coords, h \in Coords} :
              tag \in MaskTags}

ExtraNames == <<"extra1", "extra2", "extra3">>

\* The first n field names of a record read under a schema.
FieldNames(schema, n) ==
    [i \in 1..n |-> IF i <= Len(schema) THEN schema[i] ELSE ExtraNames[i - Len(schema)]]

PointFields == <<"x", "y", "z">>
Box2dFields == <<"xmin", "ymin", "xmax", "ymax">>
Box3dFields == <<"center", "length", "width", "height", "heading">>

\* The records of n fields handed to each deserialize, n up to MaxExtra more
\* than the schema has.
PointArities == 0..(Len(PointFields) + MaxExtra)
PointRows(n) == {Row(FieldNames(PointFields, n), v) : v \in [1..n -> Coords]}

Box2dArities == 0..(Len(Box2dFields) + MaxExtra)
Box2dRows(n) == {Row(FieldNames(Box2dFields, n), v) : v \in [1..n -> Coords]}

\* The center column holds a Point, or the record the engine reads for it.
Centers == Points \cup {Row(PointFields, <<c.x, c.y, c.z>>) : c \in Points}

Box3dArities == 0..(Len(Box3dFields) + MaxExtra)
Box3dRows(n) ==
    IF n = 0 THEN {Row(<<>>, <<>>)}
    ELSE {Row(FieldNames(Box3dFields, n), <<c>> \o v) :
             c \in Centers, v \in [1..(n - 1) -> Coords]}

\* The integers a type column may hold: the values of the enumeration and
\* one below and one above them.
TypeCodes == 0..(Cardinality(MaskTags) + 1)

MaskRows ==
    {Row(MaskFields, <<t, h, w, p, r>>) :
        t \in TypeCodes, h \in Coords, w \in Coords,
        p \in {None} \cup PolygonData, r \in {None} \cup RleData}

SerializeOps ==
    {"Box2dType.serialize", "PointType.serialize", "Box3dType.serialize",
     "MaskType.serialize"}

DeserializeOf(o) ==
    CASE o = "Box2dType.serialize" -> "Box2dType.deserialize"
      [] o = "PointType.serialize" -> "PointType.deserialize"
      [] o = "Box3dType.serialize" -> "Box3dType.deserialize"
      [] o = "MaskType.serialize" -> "MaskType.deserialize"

(***************************************************************************)
(* The two steps of a call.                                                *)
(***************************************************************************)
\* The statements before the return / if statement of a method: what they
\* log, the local variables they assign, and the exception if one raises.
Prologue(o, a) ==
    CASE o = "Box2dType.deserialize" ->
            [log |-> Box2dType_deserialize_log(a), local |-> None, out |-> Running]
      [] o = "PointType.deserialize" ->
            [log |-> PointType_deserialize_log(a), local |-> None, out |-> Running]
      [] o = "Box3dType.deserialize" ->
            [log |-> Box3dType_deserialize_log(a), local |-> None, out |-> Running]
      [] o = "MaskType.serialize" ->
            [log |-> <<>>, local |-> [mask_type |-> MaskType_serialize_local(a)],
             out |-> Running]
      [] o = "MaskType.deserialize" ->
            LET l == MaskType_deserialize_local(a)
            IN  IF l.kind = "raise"
                THEN [log |-> <<>>, local |-> None, out |-> l]
                ELSE [log |-> <<>>, local |-> l.value, out |-> Running]
      [] OTHER -> [log |-> <<>>, local |-> None, out |-> Running]

\* The return / if statement of a method: the constructors of Mask it calls
\* and the value it returns or the exception it raises.
Body(o, a, l) ==
    CASE o = "Box2dType.sqlType" -> [calls |-> <<>>, out |-> Returned(Box2dType_sqlType)]
      [] o = "PointType.sqlType" -> [calls |-> <<>>, out |-> Returned(PointType_sqlType)]
      [] o = "Box3dType.sqlType" -> [calls |-> <<>>, out |-> Returned(Box3dType_sqlType)]
      [] o = "MaskType.sqlType" -> [calls |-> <<>>, out |-> Returned(MaskType_sqlType)]
      [] o = "Box2dType.serialize" -> [calls |-> <<>>, out |-> Box2dType_serialize(a)]
      [] o = "PointType.serialize" -> [calls |-> <<>>, out |-> PointType_serialize(a)]
      [] o = "Box3dType.serialize" -> [calls |-> <<>>, out |-> Box3dType_serialize(a)]
      [] o = "MaskType.serialize" ->
            [calls |-> <<>>, out |-> MaskType_serialize(a, l.mask_type)]
      [] o = "Box2dType.deserialize" -> [calls |-> <<>>, out |-> Box2dType_deserialize(a)]
      [] o = "PointType.deserialize" -> [calls |-> <<>>, out |-> PointType_deserialize(a)]
      [] o = "Box3dType.deserialize" -> [calls |-> <<>>, out |-> Box3dType_deserialize(a)]
      [] o = "MaskType.deserialize" -> MaskType_deserialize(a, l)

\* A call run on its own, from its argument alone.
Alone(o, a) ==
    LET p == Prologue(o, a)
    IN  IF p.out.kind = "raise"
        THEN [log |-> p.log, calls |-> <<>>, out |-> p.out]
        ELSE [log |-> p.log, calls |-> Body(o, a, p.local).calls,
              out |-> Body(o, a, p.local).out]

(***************************************************************************)
(* State: per worker, the call it is in.                                   *)
(*   pc     "idle", "entered" (called), "checked" (prologue done), "done"  *)
(*   op     the method called                                              *)
(*   arg    the obj / datum parameter                                      *)
(*   local  the local variables the prologue assigned                      *)
(*   log    what the call handed to logger.error                           *)
(*   calls  the Mask constructors the call called                          *)
(*   res    Running, or the value returned or the exception raised         *)
(*   orig   the value whose serialized record this call deserializes       *)
(***************************************************************************)
VARIABLES pc, op, arg, local, log, calls, res, orig

vars == <<pc, op, arg, local, log, calls, res, orig>>

Init ==
    /\ pc = [w \in Workers |-> "idle"]
    /\ op = [w \in Workers |-> "none"]
    /\ arg = [w \in Workers |-> None]
    /\ local = [w \in Workers |-> None]
    /\ log = [w \in Workers |-> <<>>]
    /\ calls = [w \in Workers |-> <<>>]
    /\ res = [w \in Workers |-> None]
    /\ orig = [w \in Workers |-> None]

\* Mutant: the parameter is kept in one slot of the method's type object,
\* which the calls of that method in flight share.
Argument_shared(w) ==
    arg[CHOOSE v \in Workers : pc[v] # "idle" /\ op[v] = op[w]]

\* The obj / datum parameter of the call of worker w: the call's own.
Argument(w) == arg[w]

\* Worker w calls method o with argument a.
Invoke(w, o, a) ==
    /\ pc[w] = "idle"
    /\ pc' = [pc EXCEPT ![w] = "entered"]
    /\ op' = [op EXCEPT ![w] = o]
    /\ arg' = [arg EXCEPT ![w] = a]
    /\ res' = [res EXCEPT ![w] = Running]
    /\ UNCHANGED <<local, log, calls, orig>>

Call_Box2dType_sqlType(w) ==
    /\ pc[w] = "idle"
    /\ Invoke(w, "Box2dType.sqlType", None)

Call_PointType_sqlType(w) ==
    /\ pc[w] = "idle"
    /\ Invoke(w, "PointType.sqlType", None)

Call_Box3dType_sqlType(w) ==
    /\ pc[w] = "idle"
    /\ Invoke(w, "Box3dType.sqlType", None)

Call_MaskType_sqlType(w) ==
    /\ pc[w] = "idle"
    /\ Invoke(w, "MaskType.sqlType", None)

Call_Box2dType_serialize(w) ==
    /\ pc[w] = "idle"
    /\ \E v \in Box2ds : Invoke(w, "Box2dType.serialize", v)

Call_PointType_serialize(w) ==
    /\ pc[w] = "idle"
    /\ \E v \in Points : Invoke(w, "PointType.serialize", v)

Call_Box3dType_serialize(w) ==
    /\ pc[w] = "idle"
    /\ \E c \in Points : \E v \in Box3ds(c) : Invoke(w, "Box3dType.serialize", v)

Call_MaskType_serialize(w) ==
    /\ pc[w] = "idle"
    /\ \E v \in Masks : Invoke(w, "MaskType.serialize", v)

Call_Box2dType_deserialize(w) ==
    /\ pc[w] = "idle"
    /\ \E n \in Box2dArities : \E r \in Box2dRows(n) :
           Invoke(w, "Box2dType.deserialize", r)

Call_PointType_deserialize(w) ==
    /\ pc[w] = "idle"
    /\ \E n \in PointArities : \E r \in PointRows(n) :
           Invoke(w, "PointType.deserialize", r)

Call_Box3dType_deserialize(w) ==
    /\ pc[w] = "idle"
    /\ \E n \in Box3dArities : \E r \in Box3dRows(n) :
           Invoke(w, "Box3dType.deserialize", r)

Call_MaskType_deserialize(w) ==
    /\ pc[w] = "idle"
    /\ \E r \in MaskRows : Invoke(w, "MaskType.deserialize", r)

\* The prologue of the method runs; an exception ends the call.
PrologueStep(w) ==
    /\ pc[w] = "entered"
    /\ LET p == Prologue(op[w], Argument(w))
       IN  /\ log' = [log EXCEPT ![w] = p.log]
           /\ local' = [local EXCEPT ![w] = p.local]
           /\ res' = [res EXCEPT ![w] = p.out]
           /\ pc' = [pc EXCEPT ![w] = IF p.out.kind = "raise" THEN "done" ELSE "checked"]
    /\ UNCHANGED <<op, arg, calls, orig>>

\* The body of the method runs: the call returns or raises.
BodyStep(w) ==
    /\ pc[w] = "checked"
    /\ LET b == Body(op[w], Argument(w), local[w])
       IN  /\ calls' = [calls EXCEPT ![w] = b.calls]
           /\ res' = [res EXCEPT ![w] = b.out]
    /\ pc' = [pc EXCEPT ![w] = "done"]
    /\ UNCHANGED <<op, arg, local, log, orig>>

\* The record a serialize call returned is handed to deserialize of the
\* same type.
FeedBack(w) ==
    /\ pc[w] = "done"
    /\ op[w] \in SerializeOps
    /\ res[w].kind = "return"
    /\ pc' = [pc EXCEPT ![w] = "entered"]
    /\ op' = [op EXCEPT ![w] = DeserializeOf(op[w])]
    /\ arg' = [arg EXCEPT ![w] = res[w].value]
    /\ orig' = [orig EXCEPT ![w] = arg[w]]
    /\ res' = [res EXCEPT ![w] = Running]
    /\ local' = [local EXCEPT ![w] = None]
    /\ log' = [log EXCEPT ![w] = <<>>]
    /\ calls' = [calls EXCEPT ![w] = <<>>]

\* The caller takes the result; the worker is free for the next call.
ReturnStep(w) ==
    /\ pc[w] = "done"
    /\ pc' = [pc EXCEPT ![w] = "idle"]
    /\ op' = [op EXCEPT ![w] = "none"]
    /\ arg' = [arg EXCEPT ![w] = None]
    /\ local' = [local EXCEPT ![w] = None]
    /\ log' = [log EXCEPT ![w] = <<>>]
    /\ calls' = [calls EXCEPT ![w] = <<>>]
    /\ res' = [res EXCEPT ![w] = None]
    /\ orig' = [orig EXCEPT ![w] = None]

\* One worker, every input.
Next ==
    \/ Call_Box2dType_sqlType(1)
    \/ Call_PointType_sqlType(1)
    \/ Call_Box3dType_sqlType(1)
    \/ Call_MaskType_sqlType(1)
    \/ Call_Box2dType_serialize(1)
    \/ Call_PointType_serialize(1)
    \/ Call_Box3dType_serialize(1)
    \/ Call_MaskType_serialize(1)
    \/ Call_Box2dType_deserialize(1)
    \/ Call_PointType_deserialize(1)
    \/ Call_Box3dType_deserialize(1)
    \/ Call_MaskType_deserialize(1)
    \/ PrologueStep(1)
    \/ BodyStep(1)
    \/ FeedBack(1)
    \/ ReturnStep(1)

Spec == Init /\ [][Next]_vars

\* The calls the workers of SpecConc make.
ConcCalls ==
    {[op |-> "Box2dType.serialize",
      arg |-> [kind |-> "Box2d", xmin |-> 1, ymin |-> 1, xmax |-> 2, ymax |-> 2]],
     [op |-> "PointType.deserialize", arg |-> Row(<<"x", "y">>, <<1, 2>>)],
     [op |-> "PointType.deserialize", arg |-> Row(PointFields, <<2, 1, 2>>)],
     [op |-> "Box3dType.deserialize",
      arg |-> Row(<<"center", "length">>, <<Point_init(1, 2, 1), 2>>)],
     [op |-> "MaskType.serialize",
      arg |-> DslMask_init(PyList(<<1, 2>>), 1, 2, "RLE")],
     [op |-> "MaskType.serialize",
      arg |-> DslMask_init(PyList(<<PyList(<<1, 1, 2, 1, 2, 2>>)>>), 2, 1, "POLYGON")],
     [op |-> "MaskType.deserialize",
      arg |-> Row(MaskFields, <<3, 1, 2, None, PyList(<<2, 1>>)>>)],
     [op |-> "MaskType.deserialize",
      arg |-> Row(MaskFields, <<0, 2, 2, None, PyList(<<2, 2>>)>>)]}

ConcCall(w) ==
    /\ pc[w] = "idle"
    /\ \E c \in ConcCalls : Invoke(w, c.op, c.arg)

\* Every worker, interleaved step by step.
NextConc ==
    \E w \in Workers :
        \/ ConcCall(w)
        \/ PrologueStep(w)
        \/ BodyStep(w)
        \/ ReturnStep(w)

SpecConc == Init /\ [][NextConc]_vars

(***************************************************************************)
(* Properties                                                              *)
(***************************************************************************)
Done(w, o) == pc[w] = "done" /\ op[w] = o

\* The column of a record, by name.
Column(r, n) == Row_getitem_name(r, n).value

ThreeKinds == {"POLYGON", "RLE", "COCO_RLE"}

\* C1.  Round trip: when the record that serialize returned for a Point, a
\* Box2d, a Box3d or a Mask (POLYGON, RLE or COCO_RLE) is deserialized, the
\* call returns a value equal to the original field for field (for a Mask:
\* type, height, width and data).
C1_RoundTrip ==
    \A w \in Workers :
        (pc[w] = "done" /\ orig[w] # None) => res[w] = Returned(orig[w])

C1_Witness ==
    \E w \in Workers :
        /\ Done(w, "MaskType.deserialize")
        /\ orig[w] # None
        /\ orig[w].type = "COCO_RLE"
        /\ orig[w].height # orig[w].width
        /\ res[w].kind = "return"

\* C2.  Mask mutual exclusivity: serialize of a POLYGON mask returns a record
\* with polygon set and rle null, serialize of an RLE or COCO_RLE mask a
\* record with polygon null and rle set; no returned record has both payload
\* columns set or both null.
C2_MaskExclusive ==
    \A w \in Workers :
        Done(w, "MaskType.serialize") =>
            /\ arg[w].type \in ThreeKinds => res[w].kind = "return"
            /\ res[w].kind = "return" =>
                LET polygon == Column(res[w].value, "polygon")
                    rle == Column(res[w].value, "rle")
                IN  /\ arg[w].type = "POLYGON" => (polygon # None /\ rle = None)
                    /\ arg[w].type \in {"RLE", "COCO_RLE"} =>
                           (polygon = None /\ rle # None)
                    /\ (polygon = None) # (rle = None)

C2_Witness ==
    \E w \in Workers :
        /\ Done(w, "MaskType.serialize")
        /\ arg[w].type = "POLYGON"
        /\ res[w].kind = "return"
        /\ Column(res[w].value, "rle") = None

\* C3.  Mask tag fidelity: deserialize of a record whose type is the POLYGON
\* code calls from_polygon on the polygon column, the RLE code from_rle on
\* the rle column, the COCO_RLE code from_coco_rle on the rle column; that
\* is the only constructor called, and the mask returned carries the tag of
\* the record.
C3_TagFidelity ==
    \A w \in Workers :
        Done(w, "MaskType.deserialize") =>
            LET code == Column(arg[w], "type")
                path(tag, fn, col) ==
                    code = Mask_Type_value[tag] =>
                        /\ calls[w] = <<[fn |-> fn, data |-> Column(arg[w], col)]>>
                        /\ res[w].kind = "return"
                        /\ res[w].value.type = tag
                        /\ Mask_Type_value[res[w].value.type] = code
            IN  /\ path("POLYGON", "from_polygon", "polygon")
                /\ path("RLE", "from_rle", "rle")
                /\ path("COCO_RLE", "from_coco_rle", "rle")

C3_Witness ==
    \E w \in Workers :
        /\ Done(w, "MaskType.deserialize")
        /\ Column(arg[w], "type") = Mask_Type_value["COCO_RLE"]
        /\ calls[w] # <<>>
        /\ calls[w][1].fn = "from_coco_rle"

\* C4.  Deserialize of a record whose type integer is the value of no member
\* of the enumeration raises the error of the final else branch,
\* "Unrecognized mask type"; no mask is returned and no constructor is called.
C4_UnknownCodeError ==
    \A w \in Workers :
        (/\ Done(w, "MaskType.deserialize")
         /\ ~ \E t \in MaskTags : Mask_Type_value[t] = Column(arg[w], "type"))
        => /\ res[w] = Raised("ValueError", "Unrecognized mask type")
           /\ calls[w] = <<>>

RECURSIVE LayoutType(_), LayoutFields(_)
LayoutType(t) ==
    CASE t.type = "double" -> <<"float64">>
      [] t.type = "float" -> <<"float32">>
      [] t.type = "integer" -> <<"int32">>
      [] t.type = "short" -> <<"int16">>
      [] t.type = "array" -> <<"array of">> \o LayoutType(t.elementType)
      [] t.type = "struct" -> <<"record(">> \o LayoutFields(t.fields) \o <<")">>

LayoutFields(fs) ==
    IF fs = <<>> THEN <<>>
    ELSE <<Head(fs).name>> \o LayoutType(Head(fs).dataType)
         \o <<IF Head(fs).nullable THEN "nullable" ELSE "not-null">>
         \o LayoutFields(Tail(fs))

PointTable ==
    <<"x", "float64", "not-null", "y", "float64", "not-null",
      "z", "float64", "not-null">>

Box2dTable ==
    <<"xmin", "float64", "not-null", "ymin", "float64", "not-null",
      "xmax", "float64", "not-null", "ymax", "float64", "not-null">>

Box3dTable ==
    <<"center", "record(">> \o PointTable \o <<")", "not-null",
      "length", "float64", "not-null", "width", "float64", "not-null",
      "height", "float64", "not-null", "heading", "float64", "not-null">>

MaskTable ==
    <<"type", "int16", "not-null", "height", "int32", "not-null",
      "width", "int32", "not-null",
      "polygon", "array of", "array of", "float32", "nullable",
      "rle", "array of", "int32", "nullable">>

\* C6.  Schema stability: whatever was called before, sqlType of each type
\* returns the layout of the field table: the same fields, in the same
\* order, with the same types and nullability.
C6_SchemaStable ==
    \A w \in Workers :
        LET layout == LayoutFields(res[w].value.fields)
        IN  /\ Done(w, "PointType.sqlType") =>
                   (res[w].kind = "return" /\ layout = PointTable)
            /\ Done(w, "Box2dType.sqlType") =>
                   (res[w].kind = "return" /\ layout = Box2dTable)
            /\ Done(w, "Box3dType.sqlType") =>
                   (res[w].kind = "return" /\ layout = Box3dTable)
            /\ Done(w, "MaskType.sqlType") =>
                   (res[w].kind = "return" /\ layout = MaskTable)

C6_Witness ==
    \E w \in Workers :
        /\ Done(w, "MaskType.sqlType")
        /\ res[w].kind = "return"
        /\ Len(res[w].value.fields) = 5

Expected(o) ==
    CASE o = "PointType.deserialize" -> Len(PointFields)
      [] o = "Box2dType.deserialize" -> Len(Box2dFields)
      [] o = "Box3dType.deserialize" -> Len(Box3dFields)

\* C8.  Malformed arity: deserialize of a Point record of fewer than 3 fields,
\* a Box3d record of fewer than 5 fields or a Box2d record of other than 4
\* fields logs one diagnostic and goes on to the construction (the call is
\* still running after the check); for a short record the call ends in an
\* IndexError or TypeError raised by the construction, not in a value.  A
\* record of the expected arity logs nothing.
C8_MalformedArity ==
    \A w \in Workers :
        (/\ op[w] \in {"PointType.deserialize", "Box2dType.deserialize",
                       "Box3dType.deserialize"}
         /\ pc[w] \in {"checked", "done"})
        => LET n == Row_len(arg[w])
               malformed == IF op[w] = "Box2dType.deserialize"
                            THEN n # Expected(op[w])
                            ELSE n < Expected(op[w])
           IN  /\ malformed => Len(log[w]) = 1
               /\ n = Expected(op[w]) => log[w] = <<>>
               /\ pc[w] = "checked" => res[w] = Running
               /\ (pc[w] = "done" /\ n < Expected(op[w])) =>
                      /\ res[w].kind = "raise"
                      /\ res[w].exc \in {"IndexError", "TypeError"}

C8_Witness ==
    \E w \in Workers :
        /\ Done(w, "Box3dType.deserialize")
        /\ Row_len(arg[w]) = 4
        /\ Len(log[w]) = 1
        /\ res[w].kind = "raise"

\* C9.  Box3dType.serialize returns a record of five fields in the order of
\* the schema whose center field is a nested Point record (x, y, z) copied
\* from the center of the box; Point and Box2d serialize copy field by field
\* under the field names of the schema.
C9_Box3dRecord ==
    \A w \in Workers :
        /\ Done(w, "Box3dType.serialize") =>
               /\ res[w].kind = "return"
               /\ Row_len(res[w].value) = 5
               /\ res[w].value.vals[1].kind = "Row"
               /\ res[w].value.vals[1] =
                      Row(PointFields,
                          <<arg[w].center.x, arg[w].center.y, arg[w].center.z>>)
               /\ SubSeq(res[w].value.vals, 2, 5) =
                      <<arg[w].length, arg[w].width, arg[w].height, arg[w].heading>>
        /\ Done(w, "PointType.serialize") =>
               res[w] = Returned(Row(PointFields, <<arg[w].x, arg[w].y, arg[w].z>>))
        /\ Done(w, "Box2dType.serialize") =>
               res[w] = Returned(Row(Box2dFields, <<arg[w].xmin, arg[w].ymin,
                                                    arg[w].xmax, arg[w].ymax>>))

\* C10.  Height and width pass through: the mask deserialize returns for a
\* record of a known type code has the height of the height column and the
\* width of the width column, on all three paths, also when they differ.
C10_Dimensions ==
    \A w \in Workers :
        Done(w, "MaskType.deserialize") =>
            /\ (\E t \in ThreeKinds : Mask_Type_value[t] = Column(arg[w], "type"))
                   => res[w].kind = "return"
            /\ res[w].kind = "return" =>
                   /\ res[w].value.height = Column(arg[w], "height")
                   /\ res[w].value.width = Column(arg[w], "width")

C10_Witness ==
    \E w \in Workers :
        /\ Done(w, "MaskType.deserialize")
        /\ res[w].kind = "return"
        /\ res[w].value.type = "RLE"
        /\ Column(arg[w], "height") # Column(arg[w], "width")
        /\ res[w].value.height = Column(arg[w], "height")

====
